---- MODULE Spec2Model ----
(***************************************************************************)
(* Model of the notebook HeatTransferConduction (second copy in the file,  *)
(* lines 226-476; the first copy, lines 1-224, has the same resistance and *)
(* flux cells and a temperature cell without the T and x vectors).         *)
(*                                                                         *)
(* The notebook is a Jupyter kernel namespace acted on by three code       *)
(* cells: the resistance cell (lines 311-323), the flux cell (351-352)     *)
(* and the temperature cell (393-411).  A cell can be run at any time and  *)
(* any number of times; an exception stops the cell where it is raised and *)
(* leaves the names assigned so far in the namespace.                      *)
(*                                                                         *)
(* Numbers.  Python floats and numpy float64 values are modelled as exact  *)
(* rationals <<n, d>> in lowest terms with d > 0, extended with the three  *)
(* IEEE values numpy produces on division by zero: <<1,0>> is +inf,        *)
(* <<-1,0>> is -inf and <<0,0>> is nan.  Rounding to 53 bits and the sign  *)
(* of zero are not modelled: every equality below is an equality of the    *)
(* real values the float computation approximates.                         *)
(***************************************************************************)
EXTENDS Integers, Sequences, FiniteSets, TLC

VARIABLES
    lit,      \* the literals written in the resistance cell: [T1, T4, k, L]
    defined,  \* the names bound in the kernel namespace
    T1, T4,   \* boundary temperatures (namespace)
    k, L,     \* conductivities and thicknesses (namespace)
    AR,       \* area-resistances (namespace)
    q,        \* heat flux (namespace)
    T2, T3,   \* interface temperatures (namespace)
    T, x,     \* profile vectors (namespace)
    status,   \* outcome of the last run of each cell
    prev,     \* the flux result noted down before the literals were edited
    runs      \* how many times each cell has been run, where that is counted

vars == <<lit, defined, T1, T4, k, L, AR, q, T2, T3, T, x, status, prev, runs>>

(***************************************************************************)
(* Bounds of the model.                                                    *)
(***************************************************************************)
\* the largest number of layers written in the lists k and L
MaxLayers == 4

\* the largest number of runs of one cell that is counted
MaxRuns == 3

(***************************************************************************)
(* Extended rational arithmetic (Python float / numpy float64).            *)
(***************************************************************************)
Abs(a) == IF a < 0 THEN -a ELSE a

Sign(a) == IF a < 0 THEN -1 ELSE IF a > 0 THEN 1 ELSE 0

RECURSIVE GCD(_, _)
GCD(a, b) == IF b = 0 THEN a ELSE GCD(b, a % b)

\* the number n/d in canonical form
Norm(n, d) ==
    IF d = 0 THEN <<Sign(n), 0>>
    ELSE LET g == GCD(Abs(n), Abs(d))
             s == Sign(d)
         IN  <<(s * n) \div g, (s * d) \div g>>

Num(n) == <<n, 1>>
Zero == Num(0)
PosInf == <<1, 0>>
NegInf == <<-1, 0>>
NaN == <<0, 0>>

IsFinite(a) == a[2] # 0
IsZero(a) == a[2] # 0 /\ a[1] = 0

\* a + b
XAdd(a, b) ==
    IF a[2] = 0 /\ b[2] = 0
    THEN (IF a = b THEN a ELSE NaN)
    ELSE Norm(a[1] * b[2] + b[1] * a[2], a[2] * b[2])

\* -a
XNeg(a) == <<-a[1], a[2]>>

\* a - b
XSub(a, b) == XAdd(a, XNeg(b))

\* a * b
XMul(a, b) == Norm(a[1] * b[1], a[2] * b[2])

\* a / b as numpy divides: x/0 is inf, -inf or nan, never an exception
XDiv(a, b) ==
    LET s == IF b[1] < 0 THEN -1 ELSE 1
    IN  Norm(a[1] * b[2] * s, a[2] * b[1] * s)

\* a < b, for finite a and b
XLess(a, b) == a[1] * b[2] < b[1] * a[2]

\* a <= b, for finite a and b
XLeq(a, b) == a[1] * b[2] <= b[1] * a[2]

(***************************************************************************)
(* The literal inputs of the resistance cell (lines 312-317).  The         *)
(* notebook writes one example; the lists are the interface of the         *)
(* calculation, so the model lets them be any short lists over a few       *)
(* values, the invalid ones included.                                      *)
(***************************************************************************)
\* the layers a list can hold: the example's insulation and brick, a layer
\* of zero conductivity, one of negative conductivity, one of zero thickness
LayerVals ==
    { [L |-> <<3, 100>>, k |-> <<7, 100>>],
      [L |-> <<1, 10>>,  k |-> <<7, 10>>],
      [L |-> <<3, 100>>, k |-> Zero],
      [L |-> <<3, 100>>, k |-> <<-7, 100>>],
      [L |-> Zero,       k |-> <<7, 100>>] }

\* the layers with positive thickness and positive conductivity
GoodLayerVals == {v \in LayerVals : XLess(Zero, v.L) /\ XLess(Zero, v.k)}

\* the boundary temperatures <<T1, T4>> a cell can hold
Temps == {<<150, 10>>, <<10, 10>>}

\* one list longer than the other by a trailing element, or neither
Surplus == {"none", "k", "L"}

StacksOf(vals) == UNION {[1..n -> vals] : n \in 0..MaxLayers}

MkInput(stack, t, u) ==
    [T1 |-> Num(t[1]),
     T4 |-> Num(t[2]),
     k  |-> [i \in 1..Len(stack) |-> stack[i].k]
            \o (IF u = "k" THEN << <<7, 10>> >> ELSE <<>>),
     L  |-> [i \in 1..Len(stack) |-> stack[i].L]
            \o (IF u = "L" THEN << <<1, 10>> >> ELSE <<>>)]

Inputs == {MkInput(s, t, u) : s \in StacksOf(LayerVals), t \in Temps, u \in Surplus}

\* the inputs the calculation is specified for: one thickness and one
\* conductivity per layer, all positive, at least one layer
ValidInput(in) ==
    /\ Len(in.k) = Len(in.L)
    /\ Len(in.k) >= 1
    /\ \A i \in 1..Len(in.k) : XLess(Zero, in.k[i]) /\ XLess(Zero, in.L[i])

ValidInputs == {MkInput(s, t, "none") : s \in StacksOf(GoodLayerVals) \ {<<>>}, t \in Temps}

\* the worked example written in the notebook
Example ==
    [T1 |-> Num(150), T4 |-> Num(10),
     k |-> << <<7, 100>>, <<7, 10>>, <<7, 100>> >>,
     L |-> << <<3, 100>>, <<1, 10>>, <<3, 100>> >>]

(***************************************************************************)
(* The kernel.                                                             *)
(***************************************************************************)
Cells == {"resistance", "flux", "temperature"}

Errors == {"ZeroDivisionError", "IndexError", "NameError"}

NoRuns == [c \in Cells |-> 0]

NoPrev == [set |-> FALSE, n |-> 0, R |-> Zero, T1 |-> Zero, T4 |-> Zero, q |-> Zero]

\* a fresh kernel: no name is bound, no cell has run
FreshKernel ==
    /\ defined = {}
    /\ T1 = Zero /\ T4 = Zero
    /\ k = <<>> /\ L = <<>>
    /\ AR = <<>>
    /\ q = Zero
    /\ T2 = Zero /\ T3 = Zero
    /\ T = <<>> /\ x = <<>>
    /\ status = [c \in Cells |-> "idle"]

Init ==
    /\ lit \in Inputs
    /\ FreshKernel
    /\ prev = NoPrev
    /\ runs = NoRuns

(***************************************************************************)
(* Resistance cell, lines 311-323.                                         *)
(***************************************************************************)
\* the quotient taken the wrong way round: k[i]/L[i]
LayerResistance_Inverted(Lv, kv) == XDiv(kv, Lv)

\* L[i]/k[i] once both are read and k[i] is not zero
LayerResistance(Lv, kv) == XDiv(Lv, kv)

\* for i in range(0, len(k)): AR.append(L[i]/k[i]); the list built so far
\* survives the exception that stops the loop
RECURSIVE ARLoop(_, _, _, _)
ARLoop(kk, LL, i, acc) ==
    IF i > Len(kk) THEN [AR |-> acc, out |-> "ok"]
    ELSE IF i > Len(LL) THEN [AR |-> acc, out |-> "IndexError"]
    ELSE IF IsZero(kk[i]) THEN [AR |-> acc, out |-> "ZeroDivisionError"]
    ELSE ARLoop(kk, LL, i + 1, Append(acc, LayerResistance(LL[i], kk[i])))

\* the cell without its line AR = []: the loop appends to the list of
\* the run before
RunResistanceCell_Accumulate ==
    LET r == ARLoop(lit.k, lit.L, 1, AR)
    IN  /\ T1' = lit.T1
        /\ T4' = lit.T4
        /\ k' = lit.k
        /\ L' = lit.L
        /\ AR' = r.AR
        /\ defined' = defined \cup {"T1", "T4", "k", "L", "AR"}
        /\ status' = [status EXCEPT !["resistance"] = r.out]
        /\ UNCHANGED <<lit, q, T2, T3, T, x, prev>>

RunResistanceCell ==
    LET r == ARLoop(lit.k, lit.L, 1, <<>>)
    IN  /\ T1' = lit.T1
        /\ T4' = lit.T4
        /\ k' = lit.k
        /\ L' = lit.L
        /\ AR' = r.AR
        /\ defined' = defined \cup {"T1", "T4", "k", "L", "AR"}
        /\ status' = [status EXCEPT !["resistance"] = r.out]
        /\ UNCHANGED <<lit, q, T2, T3, T, x, prev>>

(***************************************************************************)
(* Flux cell, lines 351-352.                                               *)
(***************************************************************************)
\* np.sum(AR): 0.0 for the empty list, else the elements added left to right
RECURSIVE NpSum(_)
NpSum(s) ==
    IF Len(s) = 0 THEN Zero
    ELSE XAdd(NpSum(SubSeq(s, 1, Len(s) - 1)), s[Len(s)])

\* the temperature difference taken the wrong way round: (T4 - T1)/np.sum(AR)
Flux_Reversed(t1, t4, ar) == XDiv(XSub(t4, t1), NpSum(ar))

\* the difference multiplied by the total instead of divided by it
Flux_Product(t1, t4, ar) == XMul(XSub(t1, t4), NpSum(ar))

\* np.mean written for np.sum
Flux_Mean(t1, t4, ar) == XDiv(XSub(t1, t4), XDiv(NpSum(ar), Num(Len(ar))))

\* float(T1 - T4)/np.sum(AR)
Flux(t1, t4, ar) == XDiv(XSub(t1, t4), NpSum(ar))

RunFluxCell ==
    IF "T1" \notin defined
    THEN /\ status' = [status EXCEPT !["flux"] = "NameError"]
         /\ UNCHANGED <<lit, defined, T1, T4, k, L, AR, q, T2, T3, T, x, prev>>
    ELSE /\ q' = Flux(T1, T4, AR)
         /\ defined' = defined \cup {"q"}
         /\ status' = [status EXCEPT !["flux"] = "ok"]
         /\ UNCHANGED <<lit, T1, T4, k, L, AR, T2, T3, T, x, prev>>

(***************************************************************************)
(* Temperature cell, lines 393-411.                                        *)
(***************************************************************************)
\* the sign of the flux term lost: q*AR[0] + T1
ForwardT2_Plus(qv, ar, t1) == XAdd(XMul(qv, ar[1]), t1)

\* T2 = -q*AR[0] + T1
ForwardT2(qv, ar, t1) == XAdd(XMul(XNeg(qv), ar[1]), t1)

\* the middle layer's resistance taken for the last one: q*AR[1] + T4
BackwardT3_Middle(qv, ar, t4) == XAdd(XMul(qv, ar[2]), t4)

\* T3 = q*AR[2] + T4
BackwardT3(qv, ar, t4) == XAdd(XMul(qv, ar[3]), t4)

\* the last boundary left out of the vector: T = [T1, T2, T3, T3]
TempVector_NoLast(t1, t2, t3, t4) == <<t1, t2, t3, t3>>

\* T = [T1, T2, T3, T4]
TempVector(t1, t2, t3, t4) == <<t1, t2, t3, t4>>

\* x = [0, L[0], L[0]+L[1], L[0]+L[1]+L[2]]
Positions(LL) ==
    <<Zero, LL[1], XAdd(LL[1], LL[2]), XAdd(XAdd(LL[1], LL[2]), LL[3])>>

RunTemperatureCell ==
    IF "q" \notin defined
    THEN /\ status' = [status EXCEPT !["temperature"] = "NameError"]
         /\ UNCHANGED <<lit, defined, T1, T4, k, L, AR, q, T2, T3, T, x, prev>>
    ELSE IF Len(AR) < 1
    THEN /\ status' = [status EXCEPT !["temperature"] = "IndexError"]
         /\ UNCHANGED <<lit, defined, T1, T4, k, L, AR, q, T2, T3, T, x, prev>>
    ELSE IF Len(AR) < 3
    THEN /\ T2' = ForwardT2(q, AR, T1)
         /\ defined' = defined \cup {"T2"}
         /\ status' = [status EXCEPT !["temperature"] = "IndexError"]
         /\ UNCHANGED <<lit, T1, T4, k, L, AR, q, T3, T, x, prev>>
    ELSE IF Len(L) < 3
    THEN /\ T2' = ForwardT2(q, AR, T1)
         /\ T3' = BackwardT3(q, AR, T4)
         /\ T' = TempVector(T1, T2', T3', T4)
         /\ defined' = defined \cup {"T2", "T3", "T"}
         /\ status' = [status EXCEPT !["temperature"] = "IndexError"]
         /\ UNCHANGED <<lit, T1, T4, k, L, AR, q, x, prev>>
    ELSE /\ T2' = ForwardT2(q, AR, T1)
         /\ T3' = BackwardT3(q, AR, T4)
         /\ T' = TempVector(T1, T2', T3', T4)
         /\ x' = Positions(L)
         /\ defined' = defined \cup {"T2", "T3", "T", "x"}
         /\ status' = [status EXCEPT !["temperature"] = "ok"]
         /\ UNCHANGED <<lit, T1, T4, k, L, AR, q, prev>>

(***************************************************************************)
(* The notebook: any cell, at any time.                                    *)
(***************************************************************************)
Next ==
    \/ RunResistanceCell /\ UNCHANGED runs
    \/ RunFluxCell /\ UNCHANGED runs
    \/ RunTemperatureCell /\ UNCHANGED runs

Spec == Init /\ [][Next]_vars

(***************************************************************************)
(* A second calculation: once the three cells have run, the user notes     *)
(* down the flux the notebook printed, writes other valid literals into    *)
(* the resistance cell and restarts the kernel.                            *)
(***************************************************************************)
EditLiterals ==
    /\ status["flux"] = "ok"
    /\ status["temperature"] # "idle"
    /\ \E new \in ValidInputs : lit' = new
    /\ prev' = [set |-> TRUE, n |-> Len(AR), R |-> NpSum(AR),
                T1 |-> T1, T4 |-> T4, q |-> q]
    /\ defined' = {}
    /\ T1' = Zero /\ T4' = Zero
    /\ k' = <<>> /\ L' = <<>>
    /\ AR' = <<>>
    /\ q' = Zero
    /\ T2' = Zero /\ T3' = Zero
    /\ T' = <<>> /\ x' = <<>>
    /\ status' = [c \in Cells |-> "idle"]

InitEdit ==
    /\ lit \in ValidInputs
    /\ FreshKernel
    /\ prev = NoPrev
    /\ runs = NoRuns

NextEdit ==
    \/ RunResistanceCell /\ UNCHANGED runs
    \/ RunFluxCell /\ UNCHANGED runs
    \/ RunTemperatureCell /\ UNCHANGED runs
    \/ EditLiterals /\ UNCHANGED runs

SpecEdit == InitEdit /\ [][NextEdit]_vars

(***************************************************************************)
(* Repeated runs on the same literals: the cells are run again and again   *)
(* in one kernel, and the runs of each cell are counted (the notebook's    *)
(* execution count), up to MaxRuns each.                                   *)
(***************************************************************************)
Counted(c) ==
    /\ runs[c] < MaxRuns
    /\ runs' = [runs EXCEPT ![c] = runs[c] + 1]

NextRerun ==
    \/ RunResistanceCell /\ Counted("resistance")
    \/ RunFluxCell /\ Counted("flux")
    \/ RunTemperatureCell /\ Counted("temperature")

SpecRerun == InitEdit /\ [][NextRerun]_vars

(***************************************************************************)
(* Vocabulary of the properties.                                           *)
(***************************************************************************)
Ran(c) == status[c] # "idle"

\* the temperature cell has run in a kernel where q was bound
TempRanWithQ == status["temperature"] \notin {"idle", "NameError"}

\* |a - target| <= tol
Approx(a, target, tol) ==
    /\ IsFinite(a)
    /\ XLeq(XSub(a, target), tol)
    /\ XLeq(XSub(target, a), tol)

\* sum of thickness/conductivity over the first n layers of an input
RECURSIVE SumLayers(_, _)
SumLayers(in, n) ==
    IF n = 0 THEN Zero
    ELSE XAdd(XDiv(in.L[n], in.k[n]), SumLayers(in, n - 1))

\* sum of the first n thicknesses of an input
RECURSIVE SumThickness(_, _)
SumThickness(in, n) ==
    IF n = 0 THEN Zero ELSE XAdd(in.L[n], SumThickness(in, n - 1))

\* interface temperature i (0 = first boundary), forward from t1
RECURSIVE ForwardAt(_, _, _, _)
ForwardAt(i, t1, qv, ar) ==
    IF i = 0 THEN t1 ELSE XSub(ForwardAt(i - 1, t1, qv, ar), XMul(qv, ar[i]))

\* interface temperature i (Len(ar) = last boundary), backward from t4
RECURSIVE BackwardAt(_, _, _, _)
BackwardAt(i, t4, qv, ar) ==
    IF i = Len(ar) THEN t4
    ELSE XAdd(BackwardAt(i + 1, t4, qv, ar), XMul(qv, ar[i + 1]))

\* some conductivity or some thickness written in the cell is not positive
HasInvalidLayer(in) ==
    \/ \E i \in 1..Len(in.k) : XLeq(in.k[i], Zero)
    \/ \E i \in 1..Len(in.L) : XLeq(in.L[i], Zero)

(***************************************************************************)
(* C1.  For the worked example (k = [0.07, 0.7, 0.07], L = [0.03, 0.1,     *)
(* 0.03], T1 = 150, T4 = 10) the three cells complete and give             *)
(* AR = [0.42857, 0.14286, 0.42857] to within 0.00001, np.sum(AR) = 1.0,   *)
(* q = 140.0, T2 = 90.0 and T3 = 70.0 to within 0.05.                      *)
(***************************************************************************)
TolAR == <<1, 100000>>
TolOut == <<1, 20>>

C1_WorkedExample ==
    lit = Example =>
        /\ Ran("resistance") =>
              /\ status["resistance"] = "ok"
              /\ Len(AR) = 3
              /\ Approx(AR[1], <<42857, 100000>>, TolAR)
              /\ Approx(AR[2], <<14286, 100000>>, TolAR)
              /\ Approx(AR[3], <<42857, 100000>>, TolAR)
              /\ Approx(NpSum(AR), Num(1), TolOut)
        /\ status["flux"] = "ok" => Approx(q, Num(140), TolOut)
        /\ TempRanWithQ =>
              /\ status["temperature"] = "ok"
              /\ Approx(T2, Num(90), TolOut)
              /\ Approx(T3, Num(70), TolOut)

C1_Witness == lit = Example /\ status["temperature"] = "ok"

(***************************************************************************)
(* C2.  For every valid input the temperature cell completes and the       *)
(* profile it builds is the forward sequence T_next = T_current -          *)
(* q*R_layer from T1 and also the backward sequence T_prev = T_next +      *)
(* q*R_layer from T4, over all the layers; T2 - q*AR[1] = T3.              *)
(***************************************************************************)
C2_ForwardBackwardAgree ==
    ValidInput(lit) /\ TempRanWithQ =>
        /\ status["temperature"] = "ok"
        /\ XSub(T2, XMul(q, AR[2])) = T3
        /\ T = [i \in 1..(Len(AR) + 1) |-> ForwardAt(i - 1, T1, q, AR)]
        /\ T = [i \in 1..(Len(AR) + 1) |-> BackwardAt(i - 1, T4, q, AR)]

(***************************************************************************)
(* C3.  For every valid input, once the flux cell has completed, q is      *)
(* (T1 - T4) divided by the sum of thickness/conductivity over all the     *)
(* layers, each layer counted once.                                        *)
(***************************************************************************)
C3_FluxFormula ==
    ValidInput(lit) /\ status["flux"] = "ok" =>
        /\ status["resistance"] = "ok"
        /\ NpSum(AR) = SumLayers(lit, Len(lit.k))
        /\ q = XDiv(XSub(lit.T1, lit.T4), SumLayers(lit, Len(lit.k)))

C3_Witness ==
    /\ ValidInput(lit)
    /\ status["flux"] = "ok"
    /\ Len(lit.k) >= 2
    /\ lit.T1 # lit.T4

(***************************************************************************)
(* C4.  For every valid input of n layers the resistance cell completes    *)
(* with exactly n area-resistances, in the order of the layers, the i-th   *)
(* being thickness_i / conductivity_i (AR[i] * k[i] = L[i]).               *)
(***************************************************************************)
C4_ResistancePerLayer ==
    ValidInput(lit) /\ Ran("resistance") =>
        /\ status["resistance"] = "ok"
        /\ Len(AR) = Len(lit.k)
        /\ \A i \in 1..Len(lit.k) :
              IsFinite(AR[i]) /\ XMul(AR[i], lit.k[i]) = lit.L[i]

C4_Witness ==
    /\ ValidInput(lit)
    /\ status["resistance"] = "ok"
    /\ Len(AR) >= 2
    /\ AR[1] # AR[2]

(***************************************************************************)
(* C5.  For a single valid layer the flux cell gives                       *)
(* q = (T1 - T4) * k / L.                                                  *)
(***************************************************************************)
C5_SingleLayerFlux ==
    ValidInput(lit) /\ Len(lit.k) = 1 /\ status["flux"] = "ok" =>
        q = XDiv(XMul(XSub(lit.T1, lit.T4), lit.k[1]), lit.L[1])

C5_Witness ==
    /\ ValidInput(lit)
    /\ Len(lit.k) = 1
    /\ status["flux"] = "ok"
    /\ lit.T1 # lit.T4

(***************************************************************************)
(* C6.  Two valid calculations with the same total area-resistance and     *)
(* the same boundary temperatures give the same flux, however the          *)
(* resistance is divided into layers.                                      *)
(***************************************************************************)
C6_PartitionInvariance ==
    /\ prev.set
    /\ status["flux"] = "ok"
    /\ NpSum(AR) = prev.R
    /\ T1 = prev.T1
    /\ T4 = prev.T4
    => q = prev.q

C6_Witness ==
    /\ prev.set
    /\ status["flux"] = "ok"
    /\ NpSum(AR) = prev.R
    /\ T1 = prev.T1
    /\ T4 = prev.T4
    /\ Len(AR) # prev.n
    /\ T1 # T4

(***************************************************************************)
(* C7.  In every profile computed from a valid input the flux is the same  *)
(* across every layer: (T[i] - T[i+1]) / AR[i] = q for each layer i whose  *)
(* two ends are in the profile.                                            *)
(***************************************************************************)
C7_ConstantFlux ==
    ValidInput(lit) /\ status["temperature"] = "ok" =>
        \A i \in 1..(Len(T) - 1) : XDiv(XSub(T[i], T[i + 1]), AR[i]) = q

(***************************************************************************)
(* C8.  For every valid input of n layers the temperature cell completes   *)
(* with n + 1 (position, temperature) pairs; the positions start at 0,     *)
(* increase, position i is the sum of the thicknesses before interface i   *)
(* and the last one is the sum of all the thicknesses.                     *)
(***************************************************************************)
C8_ProfilePositions ==
    ValidInput(lit) /\ TempRanWithQ =>
        /\ status["temperature"] = "ok"
        /\ Len(x) = Len(lit.L) + 1
        /\ Len(T) = Len(lit.L) + 1
        /\ \A i \in 1..Len(x) : x[i] = SumThickness(lit, i - 1)
        /\ \A i \in 1..(Len(x) - 1) : XLess(x[i], x[i + 1])

(***************************************************************************)
(* C9.  For a single valid layer the temperature cell completes and the    *)
(* profile is exactly the two points (0, T1) and (thickness, T4).          *)
(***************************************************************************)
C9_SingleLayerProfile ==
    ValidInput(lit) /\ Len(lit.k) = 1 /\ TempRanWithQ =>
        /\ status["temperature"] = "ok"
        /\ x = <<Zero, lit.L[1]>>
        /\ T = <<lit.T1, lit.T4>>

(***************************************************************************)
(* C10.  If some conductivity or thickness is zero or negative, the        *)
(* resistance cell fails with an error (any exception is taken for the     *)
(* InvalidLayer failure) and no resistance, flux or profile is produced.   *)
(***************************************************************************)
C10_InvalidLayerRejected ==
    HasInvalidLayer(lit) =>
        /\ Ran("resistance") => status["resistance"] \in Errors /\ AR = <<>>
        /\ status["flux"] # "ok"
        /\ status["temperature"] # "ok"

(***************************************************************************)
(* C11.  If both lists are empty the calculation fails with an error (any  *)
(* exception is taken for the EmptyInput failure): the resistance cell     *)
(* does not complete with an empty AR and the flux cell produces no flux.  *)
(***************************************************************************)
C11_EmptyInputRejected ==
    Len(lit.k) = 0 /\ Len(lit.L) = 0 =>
        /\ Ran("resistance") => status["resistance"] \in Errors
        /\ status["flux"] # "ok"

(***************************************************************************)
(* C12.  If k and L differ in length, whichever is longer, the resistance  *)
(* cell fails with an error (any exception is taken for the                *)
(* LengthMismatch failure); no surplus element is silently ignored.        *)
(***************************************************************************)
C12_LengthMismatchRejected ==
    Len(lit.k) # Len(lit.L) /\ Ran("resistance") =>
        status["resistance"] \in Errors

(***************************************************************************)
(* C13.  If the total of a completed, non-empty resistance list is zero    *)
(* or negative, the flux cell fails with an error (any exception is taken  *)
(* for the InvalidResistance failure) and produces no flux.                *)
(***************************************************************************)
C13_InvalidResistanceRejected ==
    /\ status["resistance"] = "ok"
    /\ Len(AR) >= 1
    /\ XLeq(NpSum(AR), Zero)
    => status["flux"] # "ok"

(***************************************************************************)
(* C14.  When the resistance cell fails, no partial result exists          *)
(* afterwards: AR holds no resistance of the layers before the failing     *)
(* one, and no later cell completes on it.                                 *)
(***************************************************************************)
C14_FailFastNoPartialResult ==
    status["resistance"] \in Errors =>
        /\ AR = <<>>
        /\ status["flux"] # "ok"
        /\ status["temperature"] # "ok"

(***************************************************************************)
(* C15.  No state persists across runs: on the same valid literals, a      *)
(* cell that is run again after it has already produced its result leaves  *)
(* AR, q, T2, T3 and the profile exactly as they were, with the same       *)
(* outcome; and AR always has exactly one entry per layer, however often   *)
(* the resistance cell has run.                                            *)
(***************************************************************************)
\* cell c has already run in a kernel that held the names it reads
HasResult(c) == status[c] \notin {"idle", "NameError"}

C15_RerunSameResult ==
    /\ [](Ran("resistance") => Len(AR) = Len(lit.k))
    /\ [][\A c \in Cells :
             runs'[c] > runs[c] /\ HasResult(c) =>
                 /\ AR' = AR
                 /\ q' = q
                 /\ T2' = T2 /\ T3' = T3
                 /\ T' = T /\ x' = x
                 /\ status'[c] = status[c]]_vars

C15_Witness ==
    /\ runs["resistance"] >= 2
    /\ runs["flux"] >= 2
    /\ runs["temperature"] >= 2
    /\ status["temperature"] = "ok"
    /\ T1 # T4

(***************************************************************************)
(* C16.  The cells have no side effect on their inputs: the literals stay  *)
(* as written, the names T1, T4, k and L, once bound, hold the literals    *)
(* whatever cells have run since, and the first and last temperatures of   *)
(* the profile are exactly the T1 and T4 supplied.                         *)
(***************************************************************************)
C16_InputsUntouched ==
    /\ "T1" \in defined =>
          /\ T1 = lit.T1
          /\ T4 = lit.T4
          /\ k = lit.k
          /\ L = lit.L
    /\ "T" \in defined =>
          /\ T[1] = lit.T1
          /\ T[Len(T)] = lit.T4

C16_Witness ==
    /\ status["temperature"] = "ok"
    /\ lit.T1 # lit.T4
    /\ IsFinite(T3)
    /\ T3 # lit.T4

(***************************************************************************)
(* C17.  For every valid input with T1 > T4 the flux is positive and the   *)
(* profile, when the temperature cell has built it, is strictly            *)
(* decreasing and lies between T4 and T1; with T1 = T4 the flux is 0 and   *)
(* every temperature of the profile is the boundary temperature.           *)
(***************************************************************************)
C17_MonotoneProfile ==
    ValidInput(lit) =>
        /\ lit.T4 = lit.T1 =>
              /\ status["flux"] = "ok" => q = Zero
              /\ status["temperature"] = "ok" =>
                    \A i \in 1..Len(T) : T[i] = lit.T1
        /\ XLess(lit.T4, lit.T1) =>
              /\ status["flux"] = "ok" => IsFinite(q) /\ XLess(Zero, q)
              /\ status["temperature"] = "ok" =>
                    /\ \A i \in 1..Len(T) :
                          /\ IsFinite(T[i])
                          /\ XLeq(lit.T4, T[i])
                          /\ XLeq(T[i], lit.T1)
                    /\ \A i \in 1..(Len(T) - 1) : XLess(T[i + 1], T[i])

C17_Witness ==
    /\ ValidInput(lit)
    /\ XLess(lit.T4, lit.T1)
    /\ status["temperature"] = "ok"
    /\ Len(T) = 4

====
